---- MODULE Spec2Model ----
(***************************************************************************)
(* A model of js/script.js, the NASA space explorer gallery: the startup   *)
(* fetch of the APOD dataset, the 9-day window filter, the gallery         *)
(* renderer and the detail modal.                                          *)
(*                                                                         *)
(* Date strings are modelled as what they are, sequences of UTF-16 code    *)
(* units ("2018-11-02" is a tuple of ten numbers), so that the string      *)
(* comparisons of the filter, the parsing of new Date(s) and the           *)
(* formatting of toISOString() are separate computations.  Time values are *)
(* minutes since 1970-01-01T00:00Z (the script never looks below a day).   *)
(***************************************************************************)
EXTENDS Integers, Sequences, FiniteSets, TLC

VARIABLES
    allAPODData,    \* the cache, script.js:18
    dom,            \* #loading / #gallery / #error-message visibility, #error-text, gallery tiles
    endDateInput,   \* [value, max] of #end-date
    modal,          \* #modal: visible class, title, date, explanation, media container
    phase,          \* "parsed", "pending" (fetch in flight), "loaded", "failed"
    fetches,        \* number of calls of fetch(), script.js:66
    last,           \* history: the handler that last wrote the gallery area, and the
                    \* end and start date strings of its filterAndRenderGallery call
    tz,             \* the browser's local time zone
    now             \* the clock, minutes since the epoch

vars == <<allAPODData, dom, endDateInput, modal, phase, fetches, last, tz, now>>

----------------------------------------------------------------------------
(* Program constants *)

GALLERY_DAYS == 9

(* Bounds of the model *)

\* the user can pick the end dates FirstEnd, FirstEnd + 1 day, ... (NumEndDates of them)
NumEndDates == 5
\* the dataset served holds one entry per day for DataDays days from FirstData
DataDays == 13
\* the clock can advance by this many days during the session
ClockTicks == 1

----------------------------------------------------------------------------
(* Strings of digits: code units, String(n), Number(s) *)

Digit(n) == 48 + n
Hyphen == Digit(0) - 3

\* lexicographic comparison of two strings by code unit, as JS compares strings
RECURSIVE StrLess(_, _)
StrLess(a, b) ==
    IF b = <<>> THEN FALSE
    ELSE IF a = <<>> THEN TRUE
    ELSE IF Head(a) # Head(b) THEN Head(a) < Head(b)
    ELSE StrLess(Tail(a), Tail(b))

StrLeq(a, b) == a = b \/ StrLess(a, b)

\* the decimal number written by the digits of s
RECURSIVE ToNumber(_)
ToNumber(s) ==
    IF s = <<>> THEN 0
    ELSE 10 * ToNumber(SubSeq(s, 1, Len(s) - 1)) + (s[Len(s)] - Digit(0))

\* n written with exactly w digits, zero padded
RECURSIVE Pad(_, _)
Pad(n, w) == IF w = 0 THEN <<>> ELSE Append(Pad(n \div 10, w - 1), Digit(n % 10))

----------------------------------------------------------------------------
(* The calendar of ECMAScript Date: days since the epoch <-> year, month, day *)

\* Day(MakeDay(y, m, dt)): the day number of day-of-month dt of month m (1..12)
\* of year y; dt may be zero or negative and then counts back into earlier months
MakeDay(y, m, dt) ==
    LET yy  == IF m <= 2 THEN y - 1 ELSE y
        era == yy \div 400
        yoe == yy - era * 400
        mp  == IF m > 2 THEN m - 3 ELSE m + 9
        doy == (153 * mp + 2) \div 5
        doe == yoe * 365 + yoe \div 4 - yoe \div 100 + doy
    IN  era * 146097 + doe - 719468 + (dt - 1)

\* YearFromTime, MonthFromTime, DateFromTime of day number z
CivilFromDay(z) ==
    LET zz  == z + 719468
        era == zz \div 146097
        doe == zz - era * 146097
        yoe == (doe - doe \div 1460 + doe \div 36524 - doe \div 146096) \div 365
        doy == doe - (365 * yoe + yoe \div 4 - yoe \div 100)
        mp  == (5 * doy + 2) \div 153
        d   == doy - (153 * mp + 2) \div 5 + 1
        m   == IF mp < 10 THEN mp + 3 ELSE mp - 9
        y   == yoe + era * 400 + (IF m <= 2 THEN 1 ELSE 0)
    IN  [year |-> y, month |-> m, date |-> d]

MinutesPerDay == 24 * 60

\* new Date("YYYY-MM-DD"): a date-only ISO string is UTC midnight of that day
DateParse(s) ==
    MakeDay(ToNumber(SubSeq(s, 1, 4)), ToNumber(SubSeq(s, 6, 7)),
            ToNumber(SubSeq(s, 9, 10))) * MinutesPerDay

\* t.toISOString().split('T')[0]: the UTC calendar date of t as "YYYY-MM-DD"
ISODate(t) ==
    LET c == CivilFromDay(t \div MinutesPerDay)
    IN  Pad(c.year, 4) \o <<Hyphen>> \o Pad(c.month, 2) \o <<Hyphen>> \o Pad(c.date, 2)

\* the date string of year y, month m, day d (for writing down inputs)
Ymd(y, m, d) == Pad(y, 4) \o <<Hyphen>> \o Pad(m, 2) \o <<Hyphen>> \o Pad(d, 2)

----------------------------------------------------------------------------
(* Local time.  A zone has one offset before and one after a transition    *)
(* instant `at` (UTC); a zone without daylight saving has both equal.      *)

Zone(name, before, after, at) ==
    [name |-> name, before |-> before, after |-> after, at |-> at]

UtcAt(y, m, d, hh) == MakeDay(y, m, d) * MinutesPerDay + hh * 60

TimeZones ==
    { Zone("UTC", 0, 0, 0),
      Zone("Asia/Kolkata", 330, 330, 0),
      \* 2018-10-28 03:00 CEST -> 02:00 CET
      Zone("Europe/Berlin", 120, 60, UtcAt(2018, 10, 28, 1)),
      \* 2018-11-04 02:00 EDT -> 01:00 EST
      Zone("America/New_York", -240, -300, UtcAt(2018, 11, 4, 6)),
      \* 2018-11-04 00:00 -03 -> 01:00 -02
      Zone("America/Sao_Paulo", -180, -120, UtcAt(2018, 11, 4, 3)) }

\* LocalTime(t) = t + LocalTZA(t, true)
LocalTime(z, t) == t + (IF t < z.at THEN z.before ELSE z.after)

\* UTC(t) = t - LocalTZA(t, false): a local time that repeats or is skipped
\* at the transition is read with the offset before the transition
UTC(z, tl) ==
    IF tl - z.before < z.at THEN tl - z.before
    ELSE IF tl - z.after >= z.at THEN tl - z.after
    ELSE tl - z.before

\* d.getDate(): the local day of the month
GetDate(z, t) == CivilFromDay(LocalTime(z, t) \div MinutesPerDay).date

\* d.setDate(dt): the local day of the month is replaced, the local time of
\* day kept, and the result read back as a local time
SetDate(z, t, dt) ==
    LET tl == LocalTime(z, t)
        c  == CivilFromDay(tl \div MinutesPerDay)
    IN  UTC(z, MakeDay(c.year, c.month, dt) * MinutesPerDay + (tl % MinutesPerDay))

\* getStartDate(endDateString), script.js:35-40
getStartDate(z, endDateString) ==
    LET endDate == DateParse(endDateString)
    IN  ISODate(SetDate(z, endDate, GetDate(z, endDate) - (GALLERY_DAYS - 1)))

\* getTodayDate(), script.js:26-28
getTodayDate(t) == ISODate(t)

----------------------------------------------------------------------------
(* The dataset served by MOCK_DATA_URL, script.js:1 *)

\* null / undefined, and the values JS takes for false in `a || b` and `if (a)`
Null == "<null>"
Truthy(v) == v # Null /\ v # ""

FirstData == Ymd(2018, 10, 24)
FirstEnd == Ymd(2018, 10, 31)

DayAfter(s, n) == ISODate(DateParse(s) + n * MinutesPerDay)

\* Entry k of the dataset: the four shapes of entry, by k
Entry(k, date) ==
    [ date          |-> date,
      title         |-> "APOD " \o ToString(k),
      explanation   |-> "About " \o ToString(k),
      media_type    |-> IF k % 4 \in {2, 3} THEN "video" ELSE "image",
      url           |-> "url/" \o ToString(k),
      hdurl         |-> IF k % 4 = 0 THEN "hd/" \o ToString(k) ELSE Null,
      thumbnail_url |-> IF k % 4 = 2 THEN "thumb/" \o ToString(k) ELSE Null ]

Reverse(s) == [i \in 1..Len(s) |-> s[Len(s) + 1 - i]]

\* one entry per day, oldest first
Daily == [k \in 1..DataDays |-> Entry(k, DayAfter(FirstData, k - 1))]

\* Daily with a second entry for day j, right after the first one
WithDuplicate(j) ==
    SubSeq(Daily, 1, j) \o <<Entry(DataDays + 1, Daily[j].date)>>
        \o SubSeq(Daily, j + 1, DataDays)

Datasets ==
    {<<>>, Daily, WithDuplicate(DataDays - 2), Reverse(WithDuplicate(DataDays - 2))}

\* what fetch() settles with: a rejection (no response), or a response with a
\* status, whose body is the JSON text of `json` or does not parse
Response(rejected, status, parses, json) ==
    [ rejected |-> rejected, ok |-> (~rejected /\ status \in 200..299),
      status |-> status, parses |-> parses, json |-> json ]

Responses ==
    {Response(TRUE, 0, FALSE, <<>>)}
        \cup {Response(FALSE, 200, TRUE, d) : d \in Datasets}
        \cup {Response(FALSE, 200, FALSE, <<>>)}
        \cup {Response(FALSE, 404, TRUE, Daily)}

\* the end dates the user can put into #end-date; <<>> is the empty value
EndDates == {DayAfter(FirstEnd, n) : n \in 0..(NumEndDates - 1)}

ClockStart == UtcAt(2018, 11, 4, 15)

----------------------------------------------------------------------------
(* The page: updateUIState, the filter, the renderer, the modal *)

LoadFailedMessage ==
    "Failed to load core data from the JSON source. Please check the URL or network connection."
OnlyFoundMessage(n) ==
    "Only found " \o ToString(n)
        \o " entries. The selected date range might be too far in the past or data is missing."
SelectDateMessage == "Please select a valid end date."

\* updateUIState with the gallery hidden while loading only
updateUIState_galleryIgnoresError(d, isLoading, errorMessage) ==
    [d EXCEPT !.loading = isLoading,
              !.gallery = ~isLoading,
              !.error = Truthy(errorMessage),
              !.errorText = IF Truthy(errorMessage) THEN errorMessage ELSE @]

\* updateUIState(isLoading, errorMessage), script.js:47-54.  The fields
\* loading, gallery and error say that the element does NOT carry `hidden`.
updateUIState(d, isLoading, errorMessage) ==
    [d EXCEPT !.loading = isLoading,
              !.gallery = ~(isLoading \/ Truthy(errorMessage)),
              !.error = Truthy(errorMessage),
              !.errorText = IF Truthy(errorMessage) THEN errorMessage ELSE @]

\* the filter callback, script.js:97-98
inWindow(item, startDateString, endDateString) ==
    StrLeq(startDateString, item.date) /\ StrLeq(item.date, endDateString)

\* Array.prototype.filter: the elements that pass, in order, in a new array
RECURSIVE Filter(_, _, _)
Filter(data, startDateString, endDateString) ==
    IF data = <<>> THEN <<>>
    ELSE (IF inWindow(Head(data), startDateString, endDateString)
          THEN <<Head(data)>> ELSE <<>>)
         \o Filter(Tail(data), startDateString, endDateString)

\* the sort callback with its operands exchanged: oldest first
compare_ascending(a, b) == DateParse(a.date) - DateParse(b.date)

\* the sort callback, script.js:99
compare(a, b) == DateParse(b.date) - DateParse(a.date)

\* Array.prototype.sort is stable: x goes behind every element that does not
\* compare greater than it
RECURSIVE Insert(_, _)
Insert(sorted, x) ==
    IF sorted = <<>> THEN <<x>>
    ELSE IF compare(Head(sorted), x) > 0 THEN <<x>> \o sorted
    ELSE <<Head(sorted)>> \o Insert(Tail(sorted), x)

RECURSIVE Sort(_)
Sort(data) ==
    IF data = <<>> THEN <<>>
    ELSE Insert(Sort(SubSeq(data, 1, Len(data) - 1)), data[Len(data)])

\* filteredData, script.js:97-99
filteredData(cache, startDateString, endDateString) ==
    Sort(Filter(cache, startDateString, endDateString))

\* sort() called on the cache itself, which it sorts in place
cacheAfterFilter_sortInPlace(cache, startDateString, endDateString) == Sort(cache)

\* sort() sorts its receiver in place; the receiver is the array filter()
\* made, so the cache is left as it was, script.js:97-99
cacheAfterFilter(cache, startDateString, endDateString) == cache

\* mediaHTML of a tile, script.js:124-148
mediaHTML(item) ==
    IF item.media_type = "video"
    THEN LET thumbnailUrl ==
                 IF Truthy(item.thumbnail_url) THEN item.thumbnail_url ELSE "placeholder"
         IN  IF thumbnailUrl = "placeholder"
             THEN [kind |-> "video-placeholder", src |-> Null]
             ELSE [kind |-> "video-thumbnail", src |-> thumbnailUrl]
    ELSE [kind |-> "img", src |-> item.url]

\* a renderer that stops after GALLERY_DAYS tiles
tilesOf_firstNine(data) ==
    [i \in 1..(IF Len(data) < GALLERY_DAYS THEN Len(data) ELSE GALLERY_DAYS) |->
        [ index |-> i - 1, item |-> data[i], media |-> mediaHTML(data[i]),
          title |-> data[i].title, date |-> data[i].date ]]

\* the tiles the renderer is to make of data, script.js:118-159
tilesOf(data) ==
    [i \in 1..Len(data) |->
        [ index |-> i - 1, item |-> data[i], media |-> mediaHTML(data[i]),
          title |-> data[i].title, date |-> data[i].date ]]

\* renderGallery(data), script.js:115-162
renderGallery(d, data) ==
    updateUIState([d EXCEPT !.tiles = tilesOf(data)], FALSE, Null)

\* the test for enough data, one off
insufficient_oneOff(n) == n < GALLERY_DAYS - 1

\* the test for enough data, script.js:102
insufficient(n) == n < GALLERY_DAYS

\* filterAndRenderGallery(endDateString), script.js:89-109, on the page d
filterAndRenderGallery(d, cache, z, endDateString) ==
    LET cleared == [updateUIState(d, TRUE, Null) EXCEPT !.tiles = <<>>, !.error = FALSE]
        startDateString == getStartDate(z, endDateString)
        data == filteredData(cache, startDateString, endDateString)
    IN  IF insufficient(Len(data))
        THEN updateUIState(cleared, FALSE, OnlyFoundMessage(Len(data)))
        ELSE renderGallery(cleared, data)

\* openModal(item), script.js:170-192
openModal(item) ==
    [ visible     |-> TRUE,
      title       |-> item.title,
      date        |-> item.date,
      explanation |-> item.explanation,
      media       |-> IF item.media_type = "video"
                      THEN <<[tag |-> "iframe", src |-> item.url, alt |-> Null]>>
                      ELSE <<[tag |-> "img",
                              src |-> IF Truthy(item.hdurl) THEN item.hdurl ELSE item.url,
                              alt |-> item.title]>> ]

\* closeModal that hides the overlay and leaves the media in place
closeModal_keepMedia(m) == [m EXCEPT !.visible = FALSE]

\* closeModal(), script.js:197-201
closeModal(m) == [m EXCEPT !.visible = FALSE, !.media = <<>>]

\* the value of allAPODData when the try block of fetchAPODData is left,
\* script.js:65-70: the assignment is reached only by an ok response that parses
loads(response) == ~response.rejected /\ response.ok /\ response.parses

\* the body assigned to the cache before the status is looked at
cacheAfterFetch_beforeOkCheck(cache, response) ==
    IF ~response.rejected /\ response.parses THEN response.json ELSE cache

cacheAfterFetch(cache, response) == IF loads(response) THEN response.json ELSE cache

\* the picker set to today only when the user has not filled it
resetEndDate_keepPicked(input, today) ==
    IF input.value = <<>> THEN [input EXCEPT !.value = today] ELSE input

\* script.js:74: the picker is set to today
resetEndDate(input, today) == [input EXCEPT !.value = today]

----------------------------------------------------------------------------
(* The initial page.  index.html sets the classes the elements start with; *)
(* the three areas may start shown or hidden, the rest starts empty.       *)

InitialPages ==
    { [loading |-> l, gallery |-> g, error |-> e, errorText |-> "", tiles |-> <<>>] :
        l \in BOOLEAN, g \in BOOLEAN, e \in BOOLEAN }

InitialModal ==
    [visible |-> FALSE, title |-> "", date |-> <<>>, explanation |-> "", media |-> <<>>]

Init ==
    /\ allAPODData = <<>>
    /\ dom \in InitialPages
    /\ endDateInput = [value |-> <<>>, max |-> <<>>]
    /\ modal = InitialModal
    /\ phase = "parsed"
    /\ fetches = 0
    /\ last = [op |-> "none", end |-> <<>>, start |-> <<>>]
    /\ tz \in TimeZones
    /\ now = ClockStart

----------------------------------------------------------------------------
(* The handlers *)

\* the DOMContentLoaded listener, script.js:222-254, with fetchAPODData up
\* to its await, script.js:61-66
DOMContentLoaded ==
    /\ phase = "parsed"
    /\ endDateInput' = [endDateInput EXCEPT !.max = getTodayDate(now)]
    /\ dom' = [updateUIState(dom, TRUE, Null) EXCEPT !.tiles = <<>>]
    /\ fetches' = fetches + 1
    /\ phase' = "pending"
    /\ last' = [last EXCEPT !.op = "start"]
    /\ UNCHANGED <<allAPODData, modal, tz, now>>

\* fetchAPODData after its await when nothing is thrown, script.js:67-75
FetchFulfilled(response) ==
    /\ phase = "pending"
    /\ loads(response)
    /\ LET today == getTodayDate(now)
           cache == cacheAfterFetch(allAPODData, response)
           start == getStartDate(tz, today)
       IN  /\ allAPODData' = cacheAfterFilter(cache, start, today)
           /\ endDateInput' = resetEndDate(endDateInput, today)
           /\ dom' = filterAndRenderGallery(dom, cache, tz, today)
           /\ last' = [op |-> "load", end |-> today, start |-> start]
    /\ phase' = "loaded"
    /\ UNCHANGED <<modal, fetches, tz, now>>

\* fetchAPODData after its await when fetch rejects, the status is not ok or
\* the body does not parse: the catch block, script.js:77-80
FetchRejected(response) ==
    /\ phase = "pending"
    /\ ~loads(response)
    /\ allAPODData' = cacheAfterFetch(allAPODData, response)
    /\ dom' = updateUIState(dom, FALSE, LoadFailedMessage)
    /\ last' = [last EXCEPT !.op = "load-failed"]
    /\ phase' = "failed"
    /\ UNCHANGED <<endDateInput, modal, fetches, tz, now>>

\* the user puts a date into #end-date, or clears it
PickDate(value) ==
    /\ endDateInput' = [endDateInput EXCEPT !.value = value]
    /\ UNCHANGED <<allAPODData, dom, modal, phase, fetches, last, tz, now>>

\* the click listener of #explore-btn, script.js:232-240
ExploreClick ==
    /\ phase # "parsed"
    /\ LET selectedDate == endDateInput.value
           start == getStartDate(tz, selectedDate)
       IN  IF selectedDate # <<>>
           THEN /\ dom' = filterAndRenderGallery(dom, allAPODData, tz, selectedDate)
                /\ allAPODData' = cacheAfterFilter(allAPODData, start, selectedDate)
                /\ last' = [op |-> "explore", end |-> selectedDate, start |-> start]
           ELSE /\ dom' = updateUIState(dom, FALSE, SelectDateMessage)
                /\ last' = [last EXCEPT !.op = "explore-empty"]
                /\ UNCHANGED allAPODData
    /\ UNCHANGED <<endDateInput, modal, phase, fetches, tz, now>>

\* the click listener of tile i, script.js:122
TileClick(i) ==
    /\ dom.gallery
    /\ i \in DOMAIN dom.tiles
    /\ modal' = openModal(dom.tiles[i].item)
    /\ UNCHANGED <<allAPODData, dom, endDateInput, phase, fetches, last, tz, now>>

\* the click listener of #modal for a click on the overlay itself, script.js:243-247
OverlayClick ==
    /\ phase # "parsed"
    /\ modal' = closeModal(modal)
    /\ UNCHANGED <<allAPODData, dom, endDateInput, phase, fetches, last, tz, now>>

\* the keydown listener for Escape, script.js:249-253
EscapeKey ==
    /\ phase # "parsed"
    /\ IF modal.visible THEN modal' = closeModal(modal) ELSE UNCHANGED modal
    /\ UNCHANGED <<allAPODData, dom, endDateInput, phase, fetches, last, tz, now>>

\* a day passes.  The script reads the clock when the page has loaded and
\* when the fetch settles, never after: the clock is followed until then.
Tick ==
    /\ phase \in {"parsed", "pending"}
    /\ now < ClockStart + ClockTicks * MinutesPerDay
    /\ now' = now + MinutesPerDay
    /\ UNCHANGED <<allAPODData, dom, endDateInput, modal, phase, fetches, last, tz>>

\* the close control of the overlay: dismissal by it clears the media as the
\* other two dismissals do
CloseControlClick ==
    /\ phase # "parsed"
    /\ modal.visible
    /\ modal' = closeModal(modal)
    /\ UNCHANGED <<allAPODData, dom, endDateInput, phase, fetches, last, tz, now>>

\* the handlers that write the gallery area, and their inputs
NextGallery ==
    \/ DOMContentLoaded
    \/ \E response \in Responses : FetchFulfilled(response)
    \/ \E response \in Responses : FetchRejected(response)
    \/ \E value \in EndDates \cup {<<>>} : PickDate(value)
    \/ ExploreClick
    \/ Tick

\* the handlers of the detail view
NextModal ==
    \/ \E i \in 1..(DataDays + 1) : TileClick(i)
    \/ OverlayClick
    \/ EscapeKey
    \/ CloseControlClick

Next == NextGallery \/ NextModal

\* The gallery in every time zone.  The handlers of the detail view write
\* `modal` alone, which no handler of the gallery reads.
SpecGallery == Init /\ [][NextGallery]_vars

\* The whole page, in a browser whose local time is UTC.
InitUTC == Init /\ tz.name = "UTC"

Spec == InitUTC /\ [][Next]_vars

----------------------------------------------------------------------------
(* What the claims speak of *)

\* the gallery area was last written by filterAndRenderGallery(last.end)
Filtered == last.op \in {"load", "explore"}

\* the calendar date eight days before the date string s
EightDaysBefore(s) == ISODate(DateParse(s) - (GALLERY_DAYS - 1) * MinutesPerDay)

\* the positions of the cache whose date lies in [startDate, endDate]
MatchingIn(cache, startDate, endDate) ==
    {i \in DOMAIN cache :
        StrLeq(startDate, cache[i].date) /\ StrLeq(cache[i].date, endDate)}

Matching(startDate, endDate) == MatchingIn(allAPODData, startDate, endDate)

\* the number of entries the last filter call had in its window
Found == Cardinality(Matching(last.start, last.end))

\* the entries shown as tiles
Shown == {dom.tiles[i].item : i \in DOMAIN dom.tiles}

\* the position of an entry in the cache
Position(item) == CHOOSE i \in DOMAIN allAPODData : allAPODData[i] = item

OnlyFoundText(n) ==
    "Only found " \o ToString(n)
        \o " entries. The selected date range might be too far in the past or data is missing."

LoadFailedText ==
    "Failed to load core data from the JSON source. Please check the URL or network connection."

\* what of the three areas the user sees: the text of a hidden banner is not seen
Visual(d) == [d EXCEPT !.errorText = IF d.error THEN @ ELSE ""]

----------------------------------------------------------------------------
\* C1: when filterAndRenderGallery(E) finds fewer than 9 cached entries in
\* its window, no tile is rendered, the gallery is hidden, the error banner
\* is shown and its text reports exactly the number of entries found.
C1_InsufficientData ==
    (Filtered /\ Found < GALLERY_DAYS) =>
        /\ dom.tiles = <<>>
        /\ ~dom.gallery
        /\ ~dom.loading
        /\ dom.error
        /\ dom.errorText = OnlyFoundText(Found)

\* a filter call found some entries, fewer than 9, of a loaded cache
C1_Witness ==
    /\ Filtered
    /\ Found \in 1..(GALLERY_DAYS - 1)
    /\ dom.errorText = OnlyFoundText(Found)

\* C2, as claimed: when filterAndRenderGallery(E) finds 9 or more qualifying
\* entries, the gallery contains exactly 9 tiles, also when the cache holds
\* several entries of one date.  Stated for a browser in UTC, where the
\* window of the filter is the nine days ending on E.
C2_ExactlyNineTiles ==
    (tz.name = "UTC" /\ Filtered /\ Found >= GALLERY_DAYS) =>
        Len(dom.tiles) = GALLERY_DAYS

\* C2, amended: when filterAndRenderGallery(E) finds n >= 9 qualifying
\* entries, the gallery is shown and contains exactly n tiles, one for each
\* qualifying entry.
C2_OneTilePerMatch ==
    (Filtered /\ Found >= GALLERY_DAYS) =>
        /\ dom.gallery
        /\ Len(dom.tiles) = Found
        /\ Shown = {allAPODData[i] : i \in Matching(last.start, last.end)}

\* in UTC, a cache with two entries of one date in the window: ten tiles
C2_Witness ==
    /\ Filtered
    /\ tz.name = "UTC"
    /\ Found > GALLERY_DAYS
    /\ Len(dom.tiles) = Found
    /\ \E i, j \in DOMAIN dom.tiles : i # j /\ dom.tiles[i].date = dom.tiles[j].date

\* C3: the tiles of the gallery are exactly the cached entries with a date d,
\* E - 8 days <= d <= E, for the end date E of the render that made them; no
\* entry dated outside of these 9 days is shown.
C3_TilesAreTheNineDays ==
    dom.tiles # <<>> =>
        Shown = {allAPODData[i] : i \in Matching(EightDaysBefore(last.end), last.end)}

\* C4: getStartDate(E) is the calendar date exactly 8 days before E, in
\* every local time zone, also when a daylight-saving change lies in between.
C4_StartIsEightDaysBefore ==
    last.end # <<>> => last.start = EightDaysBefore(last.end)

\* C5: once the startup fetch has failed, the banner shows the load-failure
\* message, fetch has been called once and is never called again, and the
\* gallery holds no tile, whatever Explore does afterwards.
C5_LoadFailureIsTerminal ==
    phase = "failed" =>
        /\ dom.tiles = <<>>
        /\ ~dom.gallery
        /\ fetches = 1
        /\ allAPODData = <<>>
        /\ last.op = "load-failed" =>
              (dom.error /\ ~dom.loading /\ dom.errorText = LoadFailedText)

\* after the failure the user has picked a date and pressed Explore
C5_Witness ==
    /\ phase = "failed"
    /\ last.op = "explore"
    /\ last.end \in EndDates

\* C6: from startup on, at most one of the loading indicator, the error
\* banner and the gallery grid is visible.
C6_OneAreaVisible ==
    phase # "parsed" =>
        /\ ~(dom.loading /\ dom.error)
        /\ ~(dom.loading /\ dom.gallery)
        /\ ~(dom.error /\ dom.gallery)

\* an Explore click with an empty date while the fetch is in flight
C6_Witness ==
    /\ phase = "pending"
    /\ last.op = "explore-empty"
    /\ dom.error

\* C7: whenever the modal is not visible its media container is empty: no
\* iframe or image outlives a dismissal.
C7_ClosedModalHoldsNoMedia == ~modal.visible => modal.media = <<>>

\* a video was opened in the modal and the modal dismissed
C7_Witness ==
    /\ ~modal.visible
    /\ modal.media = <<>>
    /\ \E i \in DOMAIN allAPODData :
          /\ allAPODData[i].media_type = "video"
          /\ modal.title = allAPODData[i].title

\* C8: the entries handed to the renderer are in non-increasing order of
\* date, and entries of one date are in the order they have in the cache.
C8_NewestFirstStable ==
    \A i, j \in DOMAIN dom.tiles :
        i < j =>
            /\ StrLeq(dom.tiles[j].date, dom.tiles[i].date)
            /\ dom.tiles[i].date = dom.tiles[j].date =>
                  Position(dom.tiles[i].item) < Position(dom.tiles[j].item)

\* tiles of a cache held oldest first, two of them of one date
C8_Witness ==
    /\ dom.tiles # <<>>
    /\ StrLess(allAPODData[1].date, allAPODData[Len(allAPODData)].date)
    /\ \E i, j \in DOMAIN dom.tiles : i # j /\ dom.tiles[i].date = dom.tiles[j].date

\* C9: fetch is called once, at startup; the cache changes only when the
\* fetch is fulfilled, from empty to the dataset loaded; no other step
\* changes it or calls fetch, so that the cache is empty or the dataset as
\* it was served, in the order it was served in.
C9_CacheWriteOnce ==
    /\ [](phase # "parsed" => fetches = 1)
    /\ [](allAPODData \in Datasets)
    /\ [][ /\ allAPODData' # allAPODData =>
                (phase = "pending" /\ phase' = "loaded" /\ allAPODData = <<>>)
           /\ phase # "parsed" => fetches' = fetches ]_vars

\* a loaded cache, held oldest first, after an Explore and a visit of the modal
C9_Witness ==
    /\ phase = "loaded"
    /\ allAPODData # <<>>
    /\ StrLess(allAPODData[1].date, allAPODData[Len(allAPODData)].date)
    /\ last.op = "explore"
    /\ dom.tiles # <<>>
    /\ modal.title # ""
    /\ ~modal.visible

\* what the page shows after filterAndRenderGallery(today) on the cache
ShownFor(cache, today) ==
    LET start == getStartDate(tz, today)
        n == Cardinality(MatchingIn(cache, start, today))
    IN  IF n < GALLERY_DAYS
        THEN [loading |-> FALSE, gallery |-> FALSE, error |-> TRUE,
              errorText |-> OnlyFoundText(n), tiles |-> <<>>]
        ELSE [loading |-> FALSE, gallery |-> TRUE, error |-> FALSE,
              errorText |-> "", tiles |-> tilesOf(filteredData(cache, start, today))]

====
